---- MODULE Spec2Model ----
(***************************************************************************)
(* Model of the markdown test compiler (build, parseMarkdownTests,         *)
(* stringifyOperations) and of the test suite it generates, followed by a  *)
(* model of the repeatInsert command.                                      *)
(*                                                                         *)
(* A specification file is modelled by what the entry regular expression   *)
(* extracts from it: the sequence of matches (title text, optional         *)
(* predecessor link, the operation and flag lines of the body in source    *)
(* order, fenced code), together with the number of header lines of the    *)
(* file.  Where the entry regular expression itself is examined, the file  *)
(* is given by its lines instead.  Strings whose characters                *)
(* the code inspects (titles, commands) are sequences of one-character     *)
(* strings.                                                                *)
(***************************************************************************)
EXTENDS Integers, Sequences, FiniteSets, TLC

VARIABLES
  dir,             \* the files of the commands directory, in the order of readdir
  outputs,         \* per file of dir: the .test.ts file next to it, as far as
                   \* the directory is modelled
  scan,            \* index in dir of the file of the current loop iteration
  reads,           \* indices of the files of dir that fs.readFile was called on
  contents,        \* the file read last: [matches, headers], or [lines]
  phase,           \* "listed", "source", "rejected", "written", "built",
                   \* "loaded", "running", "finished"
  error,           \* the failure raised by the compilation, NoError if none
  suite,           \* the generated suite: [setups, tests], tests carry their steps
  documents,       \* generated table: title -> Pending, Undefined or a document state
  editor,          \* the live document shared by all tests of the suite
  behavior,        \* the selection behaviour setting of the editor, per mode
  cur,             \* index of the test the runner is executing
  pc,              \* position inside the body of test cur
  beforeDocument,  \* local of the running test
  stepIdx,         \* index of the next step of the running test
  group,           \* the latest Promise.all group of the running test:
                   \* members started, resolved, never settling, and the timers fired
  status,          \* per test: "pending", "passed", "failed", "skipped"
  notified,        \* per test: the arguments it passed to notifyDependents[title]
  recordedCommands,\* editorState.recordedCommands: [flags, followingChanges]
  currentCount,    \* state.currentCount of the repeatInsert command
  replay,          \* the repeatInsert handler: its position and its locals start, end
  executed,        \* the indices handed to CommandDescriptor.execute, in order
  edits            \* the calls made on the builder of each editor.edit, in order

vars == << dir, outputs, scan, reads, contents, phase, error, suite, documents, editor,
           behavior, cur, pc, beforeDocument, stepIdx, group, status, notified,
           recordedCommands, currentCount, replay, executed, edits >>

\* the state of the repeatInsert command
repeatVars == << recordedCommands, currentCount, replay, executed, edits >>

\* the state of the compiler and of the generated suite
buildVars == << dir, outputs, scan, reads, contents, phase, error, suite, documents, editor,
               behavior, cur, pc, beforeDocument, stepIdx, group, status, notified >>

(***************************************************************************)
(* Bounds of the model.                                                    *)
(***************************************************************************)
MaxEntries == 4
MaxParseEntries == 3
MaxOps == 4
MaxBody == 3
MaxFiles == 3
MaxLines == 7
MaxRecorded == 4
MaxCount == 2

(***************************************************************************)
(* Values.                                                                 *)
(***************************************************************************)
\* comesAfter === undefined: the link group of the entry regex did not match.
\* A matched link has at least one character, so the empty string is free.
NoLink == << >>

\* Document states are identified by the fenced code they were built from;
\* the code of the i-th match of the file is i.
Undefined == 0
Pending == -1
Blank == -2      \* the untitled document opened by beforeAll
Garbled == -3    \* any live document content that equals no expected state

NoError == [kind |-> "none"]

\* the flag group of a line of the body that is an operation: undefined
NoFlag == [ scope |-> "", attr |-> "", value |-> "" ]

Range(s) == { s[i] : i \in DOMAIN s }

(***************************************************************************)
(* parseMarkdownTests                                                      *)
(***************************************************************************)
\* /\s/ matches a space or a tab
IsWhitespace(c) == c \in { " ", "\t" }

\* badTitle.replace(/\s/g, "-")
NormalizeTitle(badTitle) ==
  [ i \in DOMAIN badTitle |-> IF IsWhitespace(badTitle[i]) THEN "-" ELSE badTitle[i] ]

\* if (flag) flags.push(flag)
IsFlagLine(line) == line.flag # NoFlag

\* else operations.push({ command, args })
IsOperationLine(line) == line.flag = NoFlag

\* the flags of a body, in source order; the same lines are found by
\* /^> *(.+)$/gm in the body of an InitialState
LineFlags(body) ==
  LET lines == SelectSeq(body, IsFlagLine)
  IN  [ i \in DOMAIN lines |-> lines[i].flag ]

\* the operations of a body, in source order
LineOperations(body) ==
  LET lines == SelectSeq(body, IsOperationLine)
  IN  [ i \in DOMAIN lines |-> [ command |-> lines[i].command, args |-> lines[i].args ] ]

\* the loop over execAll(re, contents): one record per match, in file order;
\* a match without link goes to initial, one with a link to tests
ParsedEntries(matches) ==
  [ i \in DOMAIN matches |->
      [ title      |-> NormalizeTitle(matches[i].badTitle),
        comesAfter |-> matches[i].comesAfter,
        operations |-> IF matches[i].comesAfter = NoLink THEN << >>
                       ELSE LineOperations(matches[i].body),
        flags      |-> LineFlags(matches[i].body),
        code       |-> i ] ]

IsInitialEntry(e) == e.comesAfter = NoLink

InitialOf(matches) == SelectSeq(ParsedEntries(matches), IsInitialEntry)

IsTestEntry(e) == e.comesAfter # NoLink

TestsOf(matches) == SelectSeq(ParsedEntries(matches), IsTestEntry)

\* assert(!exists.has(title), ...) in the loop over initial
InitialTitleAllowed(exists, title) == title \notin exists

\* for (const { title } of initial): index of the first entry whose assertion
\* fails (0 if none), and the set exists after the loop
RECURSIVE CheckInitial(_, _, _)
CheckInitial(initial, i, exists) ==
  IF i > Len(initial) THEN [ bad |-> 0, exists |-> exists ]
  ELSE IF ~ InitialTitleAllowed(exists, initial[i].title)
       THEN [ bad |-> i, exists |-> exists ]
       ELSE CheckInitial(initial, i + 1, exists \cup { initial[i].title })

\* assert(exists.has(comesAfter), ...) in the loop over tests
DependencyKnown(exists, comesAfter) == comesAfter \in exists

\* for (const { title, comesAfter } of tests)
RECURSIVE CheckTests(_, _, _)
CheckTests(tests, i, exists) ==
  IF i > Len(tests) THEN 0
  ELSE IF ~ DependencyKnown(exists, tests[i].comesAfter)
       THEN i
       ELSE CheckTests(tests, i + 1, exists \cup { tests[i].title })

(***************************************************************************)
(* The regular expressions on a file given by its lines.  A line is        *)
(* "header" (# title), "link" ([..](#A)), "fence" (```) or "operation"     *)
(* (- .x); every line ends with a newline.                                 *)
(***************************************************************************)
Fences(lines) == { l \in DOMAIN lines : lines[l] = "fence" }

\* the first line from p on that is ^```\n, 0 if there is none
FirstFenceFrom(lines, p) ==
  IF \E f \in Fences(lines) : f >= p
  THEN CHOOSE f \in Fences(lines) : f >= p /\ \A g \in Fences(lines) : g >= p => f <= g
  ELSE 0

\* ([\s\S]+?)^```\n with the body starting at line b: the body takes at least
\* line b and stops before the first fence after it
OpenFence(lines, b) == FirstFenceFrom(lines, b + 1)

\* ([\s\S]+?)^```\n after the opening fence: the code takes at least one line
\* and stops before the next fence.  When the first fence after the body has
\* no such fence after it, no later one has, and the match fails.
CloseFence(lines, b) ==
  IF OpenFence(lines, b) = 0 THEN 0 ELSE FirstFenceFrom(lines, OpenFence(lines, b) + 2)

\* the fenced part of re matches with the body starting at line b
Fenced(lines, b) == CloseFence(lines, b) # 0

\* the optional link group takes the line after the header, unless the rest
\* does not match with it
WithLink(lines, h) ==
  h + 1 \in DOMAIN lines /\ lines[h + 1] = "link" /\ Fenced(lines, h + 2)

\* re matches at line h
MatchAt(lines, h) ==
  lines[h] = "header" /\ (WithLink(lines, h) \/ Fenced(lines, h + 1))

\* the first line of the body of the match at h
BodyStart(lines, h) == IF WithLink(lines, h) THEN h + 2 ELSE h + 1

\* the first line from p on at which re matches, 0 if there is none
FirstMatchFrom(lines, p) ==
  IF \E h \in p .. Len(lines) : MatchAt(lines, h)
  THEN CHOOSE h \in p .. Len(lines) :
         MatchAt(lines, h) /\ \A k \in p .. (h - 1) : ~ MatchAt(lines, k)
  ELSE 0

Letters == << "A", "B", "C", "D", "E", "F", "G", "H", "I", "J", "K", "L" >>

IsOperationText(line) == line = "operation"

\* the lines of a body that opre matches
BodyOf(lines, from, to) ==
  [ i \in DOMAIN SelectSeq(SubSeq(lines, from, to), IsOperationText) |->
      [ command |-> << ".", "x" >>, args |-> "", flag |-> NoFlag ] ]

\* the match at line h with its body starting at line b: the header at line
\* h has the title Letters[h], every link names the title A
EntryAt(lines, h, b) ==
  [ badTitle   |-> << Letters[h] >>,
    comesAfter |-> IF b = h + 2 THEN << "A" >> ELSE NoLink,
    body       |-> BodyOf(lines, b, OpenFence(lines, b) - 1),
    index      |-> h ]

\* execAll(re, contents) from line p on: the leftmost match, then the
\* matches after its closing fence
RECURSIVE ExecAllFrom(_, _)
ExecAllAt(lines, h) ==
  IF h = 0 THEN << >>
  ELSE << EntryAt(lines, h, BodyStart(lines, h)) >>
       \o ExecAllFrom(lines, CloseFence(lines, BodyStart(lines, h)) + 1)

ExecAllFrom(lines, p) == ExecAllAt(lines, FirstMatchFrom(lines, p))

\* execAll(re, contents)
EntryMatches(c) == IF "lines" \in DOMAIN c THEN ExecAllFrom(c.lines, 1) ELSE c.matches

\* the headers counted with the entry regular expression
HeaderCountOfEntries(c) == Len(EntryMatches(c))

\* execAll(/^# /gm, contents).length
HeaderCount(c) ==
  IF "lines" \in DOMAIN c
  THEN Cardinality({ l \in DOMAIN c.lines : c.lines[l] = "header" })
  ELSE c.headers

\* the whole function: the first assertion that fails decides the error
parseMarkdownTests(c) ==
  LET initial == InitialOf(EntryMatches(c))
      tests   == TestsOf(EntryMatches(c))
      ci      == CheckInitial(initial, 1, { })
      ct      == CheckTests(tests, 1, ci.exists)
  IN  IF HeaderCount(c) # Len(tests) + Len(initial)
      THEN [ ok |-> FALSE, error |-> [ kind |-> "not all tests were parsed" ] ]
      ELSE IF ci.bad # 0
      THEN [ ok |-> FALSE,
             error |-> [ kind |-> "defined multiple times", title |-> initial[ci.bad].title ] ]
      ELSE IF ct # 0
      THEN [ ok |-> FALSE,
             error |-> [ kind |-> "depends on unknown test", title |-> tests[ct].title,
                         comesAfter |-> tests[ct].comesAfter ] ]
      ELSE [ ok |-> TRUE, setups |-> initial, tests |-> tests ]

(***************************************************************************)
(* stringifyOperations                                                     *)
(***************************************************************************)
TypePrefix == << "t", "y", "p", "e", ":" >>

\* command.startsWith("type:")
IsTypeCommand(command) ==
  Len(command) >= Len(TypePrefix) /\ SubSeq(command, 1, Len(TypePrefix)) = TypePrefix

\* operations[++i].command[5] (index 5 counted from 0); a missing character
\* is undefined, which JSON.stringify leaves as undefined
TypedText(command) == IF Len(command) >= 6 THEN command[6] ELSE "undefined"

\* if (command[0] === ".") command = `dance${command}`
Namespaced(command) ==
  IF Len(command) >= 1 /\ command[1] = "."
  THEN << "d", "a", "n", "c", "e" >> \o command
  ELSE command

\* /^(\w+)\.(behavior) <- (caret|character)$/ on a flag written scope.attr <- value
FlagRecognized(flag) ==
  /\ flag.scope # ""
  /\ flag.attr = "behavior"
  /\ flag.value \in { "caret", "character" }

\* the first flag the loop over test.flags throws on, 0 if none
FirstBadFlag(flags) ==
  IF \E i \in DOMAIN flags : ~ FlagRecognized(flags[i])
  THEN CHOOSE i \in DOMAIN flags :
         /\ ~ FlagRecognized(flags[i])
         /\ \A j \in 1 .. (i - 1) : FlagRecognized(flags[j])
  ELSE 0

\* await executeCommand("dance.dev.setSelectionBehavior", { mode, value })
ConfigStep(flag) ==
  [ kind    |-> "config",
    members |-> << [ kind |-> "config", name |-> flag.scope, text |-> flag.value, delay |-> 0 ] >> ]

\* executeCommand(JSON.stringify(command), args): the first promise of a step
CommandMember(operation) ==
  [ kind |-> "command", name |-> Namespaced(operation.command),
    text |-> operation.args, delay |-> 0 ]

\* every typed character given the same timeout
TypeDelayFlat(n) == 20

\* the timeout of a typed character pushed when promises holds n members
TypeDelay(n) == n * 20

\* new Promise((resolve) => setTimeout(() => executeCommand("type", { text })
\*   .then(resolve), promises.length * 20))
TypedMember(operation, n) ==
  [ kind |-> "typed", name |-> << "t", "y", "p", "e" >>,
    text |-> TypedText(operation.command), delay |-> TypeDelay(n) ]

\* while (i + 1 < operations.length && operations[i + 1].command.startsWith("type:"))
\* starting with the promises collected so far; yields the promises and the last i
RECURSIVE CollectTyped(_, _, _)
CollectTyped(operations, i, promises) ==
  IF i + 1 <= Len(operations) /\ IsTypeCommand(operations[i + 1].command)
  THEN CollectTyped(operations, i + 1,
                    Append(promises, TypedMember(operations[i + 1], Len(promises))))
  ELSE [ promises |-> promises, last |-> i ]

Hole == [ kind |-> "hole", name |-> << >>, text |-> "", delay |-> 0 ]

\* `[${promises.map((x) => `\n  ${x},`)}]`: the array is turned into text with
\* its elements joined by ",", so every member but the last is followed by two
\* commas and the array literal has an empty slot after it
ArrayLiteral(promises) ==
  [ j \in 1 .. (2 * Len(promises) - 1) |->
      IF j % 2 = 1 THEN promises[(j + 1) \div 2] ELSE Hole ]

\* the text added for one group of promises
StepOf(promises) ==
  IF Len(promises) = 1
  THEN [ kind |-> "await", members |-> promises ]
  ELSE [ kind |-> "all", members |-> ArrayLiteral(promises) ]

\* for (let i = 0; i < operations.length; i++), i counted from 1 here
RECURSIVE OperationSteps(_, _)
OperationSteps(operations, i) ==
  IF i > Len(operations) THEN << >>
  ELSE LET g == CollectTyped(operations, i, << CommandMember(operations[i]) >>)
       IN  << StepOf(g.promises) >> \o OperationSteps(operations, g.last + 1)

\* the text of the flags added after the text of the operations
stringifyOperationsFlagsLast(test) ==
  LET bad == FirstBadFlag(test.flags)
  IN  IF bad # 0
      THEN [ ok |-> FALSE, error |-> [ kind |-> "unrecognized flag", flag |-> test.flags[bad] ] ]
      ELSE [ ok |-> TRUE,
             steps |-> OperationSteps(test.operations, 1)
                       \o [ i \in DOMAIN test.flags |-> ConfigStep(test.flags[i]) ] ]

\* the whole function: throws on the first unrecognized flag, otherwise the
\* flag steps followed by the operation steps
stringifyOperations(test) ==
  LET bad == FirstBadFlag(test.flags)
  IN  IF bad # 0
      THEN [ ok |-> FALSE, error |-> [ kind |-> "unrecognized flag", flag |-> test.flags[bad] ] ]
      ELSE [ ok |-> TRUE,
             steps |-> [ i \in DOMAIN test.flags |-> ConfigStep(test.flags[i]) ]
                       \o OperationSteps(test.operations, 1) ]

(***************************************************************************)
(* build, for one file                                                     *)
(***************************************************************************)
\* tests.map((test) => ... stringifyOperations(test) ...): the index of the
\* first test whose template throws, 0 if none
FirstFailingTest(tests) ==
  IF \E i \in DOMAIN tests : ~ stringifyOperations(tests[i]).ok
  THEN CHOOSE i \in DOMAIN tests :
         /\ ~ stringifyOperations(tests[i]).ok
         /\ \A j \in 1 .. (i - 1) : stringifyOperations(tests[j]).ok
  ELSE 0

\* the generated test of one Transition
GeneratedTest(test) ==
  [ title |-> test.title, comesAfter |-> test.comesAfter, code |-> test.code,
    steps |-> stringifyOperations(test).steps ]

\* the text handed to fs.writeFile
GeneratedSuite(parsed) ==
  [ setups |-> parsed.setups,
    tests  |-> [ i \in DOMAIN parsed.tests |-> GeneratedTest(parsed.tests[i]) ] ]

NoSuite == [ setups |-> << >>, tests |-> << >> ]

\* a .test.ts file: absent, left by an earlier build, or written by this one
Absent == [ state |-> "absent", text |-> NoSuite ]
Stale == [ state |-> "stale", text |-> NoSuite ]
WrittenFile(text) == [ state |-> "written", text |-> text ]

\* f.endsWith(".md")
IsMarkdown(file) == file.ext = "md"

\* parseMarkdownTests(contents) and the evaluation of the template, which
\* calls stringifyOperations for every test: an error, or the text for writeFile
CompileFile(c) ==
  LET parsed == parseMarkdownTests(c)
      bad    == IF parsed.ok THEN FirstFailingTest(parsed.tests) ELSE 0
  IN  IF ~ parsed.ok
      THEN [ ok |-> FALSE, error |-> parsed.error ]
      ELSE IF bad # 0
      THEN [ ok |-> FALSE, error |-> stringifyOperations(parsed.tests[bad]).error ]
      ELSE [ ok |-> TRUE, suite |-> GeneratedSuite(parsed) ]

\* an output file opened for writing before its text is computed
OutputTruncated(result, old) ==
  IF result.ok THEN WrittenFile(result.suite) ELSE WrittenFile(NoSuite)

\* await fs.writeFile(path, text): the argument is evaluated first, so the
\* call is made only when the compilation did not throw
OutputAfter(result, old) ==
  IF result.ok THEN WrittenFile(result.suite) ELSE old

\* the loop may only come back to its head after writeFile has returned
LoopContinuesPastFailure == phase \in { "listed", "written", "rejected" }

\* the loop is at its head: before the first file, or after a writeFile
LoopContinues == phase \in { "listed", "written" }

\* the files of the filtered list that come after the current one
Remaining == { i \in DOMAIN dir : i > scan /\ IsMarkdown(dir[i]) }

\* the next iteration of for (const file of fileNames.filter(...)):
\* contents = await fs.readFile(filePath, "utf-8")
ReadFile ==
  /\ LoopContinues
  /\ Remaining # { }
  /\ LET next == CHOOSE i \in Remaining : \A j \in Remaining : i <= j
     IN  /\ scan' = next
         /\ reads' = reads \cup { next }
         /\ contents' = dir[next].contents
  /\ phase' = "source"
  /\ UNCHANGED << repeatVars, dir, outputs, error, suite, behavior, documents, editor, cur, pc,
                  beforeDocument, stepIdx, group, status, notified >>

\* the loop has no file left: build returns
EndBuild ==
  /\ LoopContinues
  /\ Remaining = { }
  /\ phase' = "built"
  /\ UNCHANGED << repeatVars, dir, outputs, scan, reads, contents, error, suite, behavior, documents,
                  editor, cur, pc, beforeDocument, stepIdx, group, status, notified >>

\* the rest of the loop body for the file read: parse, generate, write
Compile ==
  /\ phase = "source"
  /\ LET result == CompileFile(contents)
     IN  /\ phase' = IF result.ok THEN "written" ELSE "rejected"
         /\ error' = IF result.ok THEN error ELSE result.error
         /\ suite' = IF result.ok THEN result.suite ELSE suite
         /\ outputs' = IF scan \in DOMAIN outputs
                       THEN [ outputs EXCEPT ![scan] = OutputAfter(result, @) ]
                       ELSE outputs
  /\ UNCHANGED << repeatVars, dir, scan, reads, contents, behavior, documents, editor, cur, pc, beforeDocument, stepIdx,
                  group, status, notified >>

(***************************************************************************)
(* The generated suite, as the test runner executes it.  The runner calls  *)
(* the tests one after another in emitted order; a test whose promise      *)
(* never settles keeps the runner waiting.                                 *)
(***************************************************************************)
\* the object literal assigned to documents, evaluated in source order: the
\* setups, then the tests; a later property of the same name replaces the
\* earlier one, and notifyDependents[title] is left holding the resolver of
\* the last promise created for that title
RECURSIVE SeedSetups(_, _, _)
SeedSetups(setups, i, table) ==
  IF i > Len(setups) THEN table
  ELSE SeedSetups(setups, i + 1, (setups[i].title :> setups[i].code) @@ table)

\* every test's promise seeded like a setup's, already resolved with its state
RECURSIVE SeedTestsResolved(_, _, _)
SeedTestsResolved(tests, i, table) ==
  IF i > Len(tests) THEN table
  ELSE SeedTestsResolved(tests, i + 1, (tests[i].title :> tests[i].code) @@ table)

RECURSIVE SeedTests(_, _, _)
SeedTests(tests, i, table) ==
  IF i > Len(tests) THEN table
  ELSE SeedTests(tests, i + 1, (tests[i].title :> Pending) @@ table)

DocumentsTable(s) == SeedTests(s.tests, 1, SeedSetups(s.setups, 1, << >>))

\* documents["..."]: a missing property reads as undefined
Lookup(table, title) == IF title \in DOMAIN table THEN table[title] ELSE Undefined

\* notifyDependents[title](value): settles the promise once, later calls do nothing
Resolve(table, title, value) ==
  IF table[title] = Pending THEN [ table EXCEPT ![title] = value ] ELSE table

\* awaiting the test emitted just before instead of the declared predecessor
AwaitedPrevious(test) ==
  IF cur > 1 THEN suite.tests[cur - 1].title ELSE test.comesAfter

\* the promise the test awaits: documents["${test.comesAfter}"]
AwaitedTitle(test) == test.comesAfter

EmptyGroup == [ started |-> { }, done |-> { }, stuck |-> { }, fired |-> << >> ]

Test == suite.tests[cur]

InTest == phase = "running" /\ cur <= Len(suite.tests)

\* notifyDependents[title](value) for each value of calls, in order
RECURSIVE ResolveAll(_, _, _)
ResolveAll(table, title, calls) ==
  IF calls = << >> THEN table
  ELSE ResolveAll(Resolve(table, title, Head(calls)), title, Tail(calls))

\* the test function returns or throws: the test is over with the given
\* result, having made the given calls of notifyDependents[title]
Finish(result, calls) ==
  /\ documents' = ResolveAll(documents, Test.title, calls)
  /\ notified' = [ notified EXCEPT ![cur] = @ \o calls ]
  /\ status' = [ status EXCEPT ![cur] = result ]
  /\ cur' = cur + 1
  /\ pc' = "idle"
  /\ beforeDocument' = Undefined
  /\ stepIdx' = 0
  /\ group' = EmptyGroup

\* if (beforeDocument === undefined) { notify(undefined); this.skip(); }
\* this.skip() throws, which ends the test function as skipped
Skip == Finish("skipped", << Undefined >>)

\* notifyDependents[title](afterDocument) at the end of the try block
Pass == Finish("passed", << Test.code >>)

\* a catch block that only rethrows
CatchSilent == Finish("failed", << >>)

\* catch (e) { notifyDependents[title](undefined); throw e; }
Catch == Finish("failed", << Undefined >>)

\* the modes whose selection behaviour the flags of the model name
Modes == { "normal", "insert" }

\* the setting of a mode no call has written yet
Unset == "unset"

\* a flag step that writes the setting of normal mode whatever its scope
SetNormalBehavior(setting, mode, value) ==
  [ setting EXCEPT !["normal"] = value ]

\* executeCommand("dance.dev.setSelectionBehavior", { mode, value }): the
\* setting of a mode is the value of the last call made for it
SetSelectionBehavior(setting, mode, value) ==
  [ setting EXCEPT ![mode] = value ]

\* the runner loads the generated file: the documents table is built
LoadSuite ==
  /\ phase = "written"
  /\ phase' = "loaded"
  /\ documents' = DocumentsTable(suite)
  /\ status' = [ i \in DOMAIN suite.tests |-> "pending" ]
  /\ notified' = [ i \in DOMAIN suite.tests |-> << >> ]
  /\ UNCHANGED << repeatVars, dir, outputs, scan, reads, contents, behavior, error, suite, editor, cur, pc, beforeDocument, stepIdx, group >>

\* this.beforeAll: a fresh document is opened and shown
BeforeAll ==
  /\ phase = "loaded"
  /\ phase' = "running"
  /\ editor' = Blank
  /\ behavior' = SetSelectionBehavior(behavior, "normal", "caret")
  /\ cur' = 1
  /\ pc' = "idle"
  /\ UNCHANGED << repeatVars, dir, outputs, scan, reads, contents, error, suite, documents, beforeDocument, stepIdx, group,
                  status, notified >>

\* the runner calls the next test function
StartTest ==
  /\ InTest
  /\ pc = "idle"
  /\ pc' = "await"
  /\ UNCHANGED << repeatVars, dir, outputs, scan, reads, contents, behavior, phase, error, suite, documents, editor, cur, beforeDocument,
                  stepIdx, group, status, notified >>

\* const beforeDocument = await documents[comesAfter]: resumes once settled
AwaitPredecessor ==
  /\ InTest
  /\ pc = "await"
  /\ Lookup(documents, AwaitedTitle(Test)) # Pending
  /\ beforeDocument' = Lookup(documents, AwaitedTitle(Test))
  /\ pc' = "resumed"
  /\ UNCHANGED << repeatVars, dir, outputs, scan, reads, contents, behavior, phase, error, suite, documents, editor, cur, stepIdx, group,
                  status, notified >>

\* a skip branch that puts the editor back into its initial state
SkipTestResetting ==
  /\ InTest
  /\ pc = "resumed"
  /\ beforeDocument = Undefined
  /\ Skip
  /\ editor' = Blank
  /\ behavior' = SetSelectionBehavior(behavior, "normal", "caret")
  /\ UNCHANGED << repeatVars, dir, outputs, scan, reads, contents, phase, error, suite >>

\* the skip branch is taken: this.skip() throws, the body is not entered
SkipTest ==
  /\ InTest
  /\ pc = "resumed"
  /\ beforeDocument = Undefined
  /\ Skip
  /\ UNCHANGED << repeatVars, dir, outputs, scan, reads, contents, behavior, phase, error, suite, editor >>

\* await beforeDocument.apply(editor)
ApplyBefore ==
  /\ InTest
  /\ pc = "resumed"
  /\ beforeDocument # Undefined
  /\ editor' = beforeDocument
  /\ pc' = "steps"
  /\ stepIdx' = 1
  /\ UNCHANGED << repeatVars, dir, outputs, scan, reads, contents, behavior, phase, error, suite, documents, cur, beforeDocument, group,
                  status, notified >>

\* beforeDocument.apply(editor) throws
ApplyThrows ==
  /\ InTest
  /\ pc = "resumed"
  /\ beforeDocument # Undefined
  /\ Catch
  /\ UNCHANGED << repeatVars, dir, outputs, scan, reads, contents, behavior, phase, error, suite, editor >>

AtStep == InTest /\ pc = "steps" /\ stepIdx <= Len(Test.steps)

\* what a command may leave in the live document: the expected state or not
Outcomes(test) == { test.code, Garbled }

\* await executeCommand(...): a single awaited command or flag step succeeds
RunStep ==
  /\ AtStep
  /\ Test.steps[stepIdx].kind # "all"
  /\ IF Test.steps[stepIdx].kind = "config"
     THEN /\ editor' = editor
          /\ behavior' = SetSelectionBehavior(behavior,
                                              Test.steps[stepIdx].members[1].name,
                                              Test.steps[stepIdx].members[1].text)
     ELSE /\ editor' \in Outcomes(Test)
          /\ behavior' = behavior
  /\ stepIdx' = stepIdx + 1
  /\ UNCHANGED << repeatVars, dir, outputs, scan, reads, contents, phase, error, suite, documents, cur, pc, beforeDocument, group,
                  status, notified >>

\* the awaited command rejects
StepThrows ==
  /\ AtStep
  /\ Test.steps[stepIdx].kind # "all"
  /\ Catch
  /\ UNCHANGED << repeatVars, dir, outputs, scan, reads, contents, behavior, phase, error, suite, editor >>

Members == Test.steps[stepIdx].members

\* Promise.all([...]): the array is built, which calls the command and sets
\* the timers; an empty slot counts as an already settled member
StartGroup ==
  /\ AtStep
  /\ Test.steps[stepIdx].kind = "all"
  /\ pc' = "group"
  /\ group' = [ started |-> { j \in DOMAIN Members : Members[j].kind = "command" },
                done    |-> { j \in DOMAIN Members : Members[j].kind = "hole" },
                stuck   |-> { },
                fired   |-> << >> ]
  /\ UNCHANGED << repeatVars, dir, outputs, scan, reads, contents, behavior, phase, error, suite, documents, editor, cur, beforeDocument,
                  stepIdx, status, notified >>

InGroup == InTest /\ pc = "group"

Unfired == { j \in DOMAIN Members : Members[j].kind = "typed" /\ j \notin group.started }

\* timers run in the order of their delays, equal delays in the order set
NextTimer(j) ==
  /\ j \in Unfired
  /\ \A k \in Unfired :
       \/ Members[j].delay < Members[k].delay
       \/ (Members[j].delay = Members[k].delay /\ j <= k)

\* setTimeout(() => executeCommand("type", { text }) ...) fires
FireTimer ==
  /\ InGroup
  /\ \E j \in DOMAIN Members :
       /\ NextTimer(j)
       /\ group' = [ group EXCEPT !.started = @ \cup { j }, !.fired = Append(@, j) ]
  /\ UNCHANGED << repeatVars, dir, outputs, scan, reads, contents, behavior, phase, error, suite, documents, editor, cur, pc, beforeDocument,
                  stepIdx, status, notified >>

Running == group.started \ (group.done \cup group.stuck)

\* a started command of the group resolves
MemberResolves ==
  /\ InGroup
  /\ \E j \in Running :
       group' = [ group EXCEPT !.done = @ \cup { j } ]
  /\ editor' \in Outcomes(Test)
  /\ UNCHANGED << repeatVars, dir, outputs, scan, reads, contents, behavior, phase, error, suite, documents, cur, pc, beforeDocument,
                  stepIdx, status, notified >>

\* the command of the group rejects: Promise.all rejects at once.  Timers of
\* the group still to fire type into the live document after the test has
\* ended; the commands of later tests already leave it in any state.
CommandRejects ==
  /\ InGroup
  /\ \E j \in Running : Members[j].kind = "command"
  /\ Catch
  /\ UNCHANGED << repeatVars, dir, outputs, scan, reads, contents, behavior, phase, error, suite, editor >>

\* executeCommand("type", ...) rejects: .then(resolve) never calls resolve,
\* so the member never settles
TypedRejects ==
  /\ InGroup
  /\ \E j \in Running :
       /\ Members[j].kind = "typed"
       /\ group' = [ group EXCEPT !.stuck = @ \cup { j } ]
  /\ UNCHANGED << repeatVars, dir, outputs, scan, reads, contents, behavior, phase, error, suite, documents, editor, cur, pc, beforeDocument,
                  stepIdx, status, notified >>

\* resuming as soon as the command has resolved
GroupSettledFirst(members, g) ==
  \A j \in DOMAIN members : members[j].kind = "command" => j \in g.done

\* await Promise.all([...]) resumes when every member has resolved
GroupSettled(members, g) == g.done = DOMAIN members

JoinGroup ==
  /\ InGroup
  /\ GroupSettled(Members, group)
  /\ pc' = "steps"
  /\ stepIdx' = stepIdx + 1
  /\ UNCHANGED << repeatVars, dir, outputs, scan, reads, contents, behavior, phase, error, suite, documents, editor, cur, beforeDocument,
                  group, status, notified >>

AtAssert == InTest /\ pc = "steps" /\ stepIdx > Len(Test.steps)

\* afterDocument.assertEquals(editor) passes; notifyDependents[title](afterDocument)
AssertPasses ==
  /\ AtAssert
  /\ editor = Test.code
  /\ Pass
  /\ UNCHANGED << repeatVars, dir, outputs, scan, reads, contents, behavior, phase, error, suite, editor >>

\* afterDocument.assertEquals(editor) throws
AssertThrows ==
  /\ AtAssert
  /\ editor # Test.code
  /\ Catch
  /\ UNCHANGED << repeatVars, dir, outputs, scan, reads, contents, behavior, phase, error, suite, editor >>

\* this.afterAll, once every test is over
AfterAll ==
  /\ phase = "running"
  /\ cur > Len(suite.tests)
  /\ phase' = "finished"
  /\ UNCHANGED << repeatVars, dir, outputs, scan, reads, contents, behavior, error, suite, documents, editor, cur, pc, beforeDocument,
                  stepIdx, group, status, notified >>

(***************************************************************************)
(* The repeatInsert command.  A recorded command is given by the flags of  *)
(* its descriptor, a set of flag names, and by its followingChanges, which *)
(* may be undefined; a change is [rangeLength, text].                      *)
(***************************************************************************)
\* descriptor.flags & flag
HasFlag(command, flag) == flag \in command.flags

\* a search for the first command that switches to insert mode
FirstSwitchToInsert(commands) ==
  IF \E i \in DOMAIN commands : HasFlag(commands[i], "SwitchToInsertBefore")
  THEN CHOOSE i \in DOMAIN commands :
         /\ HasFlag(commands[i], "SwitchToInsertBefore")
         /\ \A k \in 1 .. (i - 1) : ~ HasFlag(commands[k], "SwitchToInsertBefore")
  ELSE 0

\* for (; i >= 0; i--) if (flags & SwitchToInsertBefore) break: the index of
\* the last such command, counted from 1; 0 when switchToInsert is undefined
LastSwitchToInsert(commands) ==
  IF \E i \in DOMAIN commands : HasFlag(commands[i], "SwitchToInsertBefore")
  THEN CHOOSE i \in DOMAIN commands :
         /\ HasFlag(commands[i], "SwitchToInsertBefore")
         /\ \A k \in (i + 1) .. Len(commands) : ~ HasFlag(commands[k], "SwitchToInsertBefore")
  ELSE 0

\* for (i++; i < length; i++) if (flags & SwitchToNormal) break: the index of
\* the first such command after start; 0 when switchToNormal is undefined
FirstSwitchToNormal(commands, start) ==
  IF \E i \in (start + 1) .. Len(commands) : HasFlag(commands[i], "SwitchToNormal")
  THEN CHOOSE i \in (start + 1) .. Len(commands) :
         /\ HasFlag(commands[i], "SwitchToNormal")
         /\ \A k \in (start + 1) .. (i - 1) : ~ HasFlag(commands[k], "SwitchToNormal")
  ELSE 0

\* followingChanges === undefined
NoChanges == [ defined |-> FALSE, list |-> << >> ]

Changes(list) == [ defined |-> TRUE, list |-> list ]

\* if (change.rangeLength === 0) builder.insert(editor.selection.active, text)
\* else builder.replace(editor.selection, text)
BuilderCall(change) ==
  IF change.rangeLength = 0
  THEN [ op |-> "insert", at |-> "selection.active", text |-> change.text ]
  ELSE [ op |-> "replace", at |-> "selection", text |-> change.text ]

\* the body of the loop over j for one recorded command
CommandCalls(command) ==
  IF ~ command.followingChanges.defined THEN << >>
  ELSE [ k \in DOMAIN command.followingChanges.list |->
           BuilderCall(command.followingChanges.list[k]) ]

\* for (let j = start; j <= end; j++)
RECURSIVE PassCalls(_, _, _)
PassCalls(commands, j, end) ==
  IF j > end THEN << >>
  ELSE CommandCalls(commands[j]) \o PassCalls(commands, j + 1, end)

\* a loop that starts at the count itself
RepeatCountExact(count) == IF count > 0 THEN count ELSE 0

\* for (let i = state.currentCount || 1; i > 0; i--): the number of rounds
RepeatCount(count) == IF count = 0 THEN 1 ELSE IF count > 0 THEN count ELSE 0

RECURSIVE Rounds(_, _)
Rounds(calls, n) == IF n = 0 THEN << >> ELSE calls \o Rounds(calls, n - 1)

\* the calls made by the callback of editor.edit
EditCalls(commands, start, end, count) ==
  Rounds(PassCalls(commands, start, end), RepeatCount(count))

\* the handler up to its first await: the two searches, the early returns
\* and the call of CommandDescriptor.execute on the command at start
RepeatInsert ==
  /\ replay.pc = "idle"
  /\ LET start == LastSwitchToInsert(recordedCommands)
         end   == IF start = 0 THEN 0 ELSE FirstSwitchToNormal(recordedCommands, start)
     IN  IF start = 0 \/ end = 0
         THEN /\ replay' = [ pc |-> "returned", start |-> start, end |-> 0 ]
              /\ executed' = executed
         ELSE /\ replay' = [ pc |-> "executing", start |-> start, end |-> end ]
              /\ executed' = Append(executed, start)
  /\ UNCHANGED << buildVars, recordedCommands, currentCount, edits >>

\* the executed command resolves: const end = i, then the one editor.edit,
\* whose callback reads recordedCommands as they are now
ExecuteResolves ==
  /\ replay.pc = "executing"
  /\ edits' = Append(edits, EditCalls(recordedCommands, replay.start, replay.end,
                                      currentCount))
  /\ replay' = [ replay EXCEPT !.pc = "done" ]
  /\ UNCHANGED << buildVars, recordedCommands, currentCount, executed >>

\* the executed command rejects: the handler rejects before editor.edit
ExecuteRejects ==
  /\ replay.pc = "executing"
  /\ replay' = [ replay EXCEPT !.pc = "failed" ]
  /\ UNCHANGED << buildVars, recordedCommands, currentCount, executed, edits >>

(***************************************************************************)
(* Inputs.                                                                 *)
(***************************************************************************)
Op(command) == [ command |-> command, args |-> "" ]

\* a line of a body matched by the first alternative of opre
OperationLine(operation) ==
  [ command |-> operation.command, args |-> operation.args, flag |-> NoFlag ]

\* a line of a body matched by the second alternative of opre
FlagLine(flag) == [ command |-> << >>, args |-> "", flag |-> flag ]

OperationLines(operations) == [ i \in DOMAIN operations |-> OperationLine(operations[i]) ]

FlagLines(flags) == [ i \in DOMAIN flags |-> FlagLine(flags[i]) ]

InitialMatch(badTitle, flags) ==
  [ badTitle |-> badTitle, comesAfter |-> NoLink, body |-> FlagLines(flags) ]

\* a transition whose body holds the operations and then the flags
TransitionMatch(badTitle, comesAfter, operations, flags) ==
  [ badTitle |-> badTitle, comesAfter |-> comesAfter,
    body |-> OperationLines(operations) \o FlagLines(flags) ]

TypeOp(char) == Op(TypePrefix \o << char >>)

\* files of well-formed entries with plain titles, for running the suite
TitleOrder == << << "A" >>, << "B" >>, << "C" >>, << "D" >> >>

PlainTitles == Range(TitleOrder)

RunOperations == { << Op(<< ".", "x" >>) >>, << Op(<< ".", "x" >>), TypeOp("a") >> }

\* the titles are interchangeable: entries take their titles in the order of
\* TitleOrder, a new title being the first one not used by an earlier entry
Canonical(p) ==
  \A i \in DOMAIN p :
    \A k \in 1 .. (p[i] - 1) :
      \E j \in 1 .. (i - 1) : p[j] = k

\* the file whose i-th entry has title TitleOrder[p[i]] and link c[i], every
\* transition having the operations o
RunFile(p, c, o) ==
  [ i \in DOMAIN p |->
      IF c[i] = NoLink
      THEN InitialMatch(TitleOrder[p[i]], << >>)
      ELSE TransitionMatch(TitleOrder[p[i]], c[i], o, << >>) ]

\* files whose titles contain whitespace and hyphens, for the parser alone
SpacedTitles == { << "A" >>, << "a", " ", "b" >>, << "a", "-", "b" >>, << "a", "\t", "b" >> }

LinkTitles == { << "A" >>, << "a", "-", "b" >>, << "a", " ", "b" >>, << "Z" >> }

ParseMatches ==
  { InitialMatch(t, << >>) : t \in SpacedTitles }
    \cup { TransitionMatch(t, c, << >>, << >>) : t \in SpacedTitles, c \in LinkTitles }

\* one transition after one initial state, with any short list of operations
Commands == { << ".", "x" >>, << "y" >>, TypePrefix \o << "a" >>, TypePrefix \o << "b" >> }

GoodFlag == [ scope |-> "normal", attr |-> "behavior", value |-> "character" ]
BadFlag == [ scope |-> "normal", attr |-> "behavior", value |-> "block" ]

FlagLists == { << >>, << GoodFlag >>, << BadFlag >> }

InsertFlag == [ scope |-> "insert", attr |-> "behavior", value |-> "character" ]
CaretFlag == [ scope |-> "normal", attr |-> "behavior", value |-> "caret" ]

\* a transition whose body holds the given operation and flag lines
TransitionBody(badTitle, comesAfter, body) ==
  [ badTitle |-> badTitle, comesAfter |-> comesAfter, body |-> body ]

\* the lines a body is made of: an operation and three flags, one unrecognized
BodyLines ==
  { OperationLine(Op(<< ".", "x" >>)), FlagLine(GoodFlag), FlagLine(InsertFlag),
    FlagLine(BadFlag) }

\* the bodies of a later transition: without flags, or setting normal mode back
LaterBodies ==
  { << OperationLine(Op(<< ".", "x" >>)) >>,
    << OperationLine(Op(<< ".", "x" >>)), FlagLine(CaretFlag) >> }

\* nothing compiled, the generated suite not loaded
InitSuite ==
  /\ error = NoError
  /\ suite = NoSuite
  /\ documents = << >>
  /\ editor = Blank
  /\ behavior = [ m \in Modes |-> Unset ]
  /\ cur = 0
  /\ pc = "idle"
  /\ beforeDocument = Undefined
  /\ stepIdx = 0
  /\ group = EmptyGroup
  /\ status = << >>
  /\ notified = << >>

\* repeatInsert not called, nothing recorded
ReplayIdle == [ pc |-> "idle", start |-> 0, end |-> 0 ]

InitNoReplay ==
  /\ recordedCommands = << >>
  /\ currentCount = 0
  /\ replay = ReplayIdle
  /\ executed = << >>
  /\ edits = << >>

\* one file on its own, read and about to be compiled; the directory it
\* stands in and its output file are left out
InitRest ==
  /\ dir = << >>
  /\ outputs = << >>
  /\ scan = 0
  /\ reads = { }
  /\ phase = "source"
  /\ InitSuite
  /\ InitNoReplay

File(matches, unmatched) == [ matches |-> matches, headers |-> Len(matches) + unmatched ]

Init ==
  /\ \E o \in RunOperations, n \in 0 .. MaxEntries :
       \E p \in [ 1 .. n -> DOMAIN TitleOrder ] :
         /\ Canonical(p)
         /\ \E c \in [ 1 .. n -> { TitleOrder[p[i]] : i \in 1 .. n } \cup { NoLink } ] :
              contents = File(RunFile(p, c, o), 0)
  /\ InitRest

InitParse ==
  /\ \E n \in 0 .. MaxParseEntries, unmatched \in { 0, 1 } :
       \E m \in [ 1 .. n -> ParseMatches ] :
         contents = File(m, unmatched)
  /\ InitRest

InitOps ==
  /\ \E n \in 0 .. MaxOps, f \in FlagLists :
       \E cs \in [ 1 .. n -> Commands ] :
         contents = File(<< InitialMatch(<< "A" >>, << >>),
                            TransitionMatch(<< "B" >>, << "A" >>,
                                            [ i \in 1 .. n |-> Op(cs[i]) ], f) >>, 0)
  /\ InitRest

\* an initial state A with or without a flag, a transition B after A with
\* any short body, and a transition C after A or after B
InitFlags ==
  /\ \E f \in FlagLists, n \in 0 .. MaxBody, after \in { << "A" >>, << "B" >> },
        later \in LaterBodies :
       \E b \in [ 1 .. n -> BodyLines ] :
         contents = File(<< InitialMatch(<< "A" >>, f),
                            TransitionBody(<< "B" >>, << "A" >>, b),
                            TransitionBody(<< "C" >>, after, later) >>, 0)
  /\ InitRest

\* the files a directory is made of: one that compiles, one for every way a
\* compilation fails, and the same under a name that does not end in .md
FileContents ==
  { File(<< InitialMatch(<< "A" >>, << >>),
            TransitionMatch(<< "B" >>, << "A" >>, << Op(<< ".", "x" >>) >>, << >>) >>, 0),
    File(<< InitialMatch(<< "A" >>, << >>) >>, 1),
    File(<< InitialMatch(<< "A" >>, << >>), InitialMatch(<< "A" >>, << >>) >>, 0),
    File(<< TransitionMatch(<< "B" >>, << "A" >>, << >>, << >>) >>, 0),
    File(<< InitialMatch(<< "A" >>, << >>),
            TransitionMatch(<< "B" >>, << "A" >>, << >>, << BadFlag >>) >>, 0) }

Extensions == { "md", "txt" }

\* nothing read yet
NoContents == File(<< >>, 0)

\* build has listed the directory; some outputs exist from an earlier build
InitBuild ==
  /\ \E n \in 0 .. MaxFiles :
       \E c \in [ 1 .. n -> FileContents ], e \in [ 1 .. n -> Extensions ],
          o \in [ 1 .. n -> { Absent, Stale } ] :
         /\ dir = [ i \in 1 .. n |-> [ ext |-> e[i], contents |-> c[i] ] ]
         /\ outputs = o
  /\ scan = 0
  /\ reads = { }
  /\ contents = NoContents
  /\ phase = "listed"
  /\ InitSuite
  /\ InitNoReplay

LineKinds == { "header", "link", "fence", "operation" }

\* any short file, line by line
InitLines ==
  /\ \E n \in 0 .. MaxLines :
       \E l \in [ 1 .. n -> LineKinds ] :
         contents = [ lines |-> l ]
  /\ InitRest

\* the recorded commands the model draws from: with and without flags, with
\* and without changes, insertions and replacements
Recorded(flags, changes) == [ flags |-> flags, followingChanges |-> changes ]

RecordedKinds ==
  { Recorded({ "SwitchToInsertBefore" }, NoChanges),
    Recorded({ "SwitchToInsertBefore" }, Changes(<< [ rangeLength |-> 0, text |-> "i" ] >>)),
    Recorded({ "SwitchToNormal" }, NoChanges),
    Recorded({ "SwitchToInsertBefore", "SwitchToNormal" }, NoChanges),
    Recorded({ }, NoChanges),
    Recorded({ }, Changes(<< [ rangeLength |-> 0, text |-> "a" ],
                            [ rangeLength |-> 1, text |-> "b" ] >>)) }

\* repeatInsert is about to be called on any short list of recorded commands
InitRepeat ==
  /\ \E n \in 0 .. MaxRecorded, count \in 0 .. MaxCount :
       \E c \in [ 1 .. n -> RecordedKinds ] :
         /\ recordedCommands = c
         /\ currentCount = count
  /\ replay = ReplayIdle
  /\ executed = << >>
  /\ edits = << >>
  /\ dir = << >>
  /\ outputs = << >>
  /\ scan = 0
  /\ reads = { }
  /\ contents = NoContents
  /\ phase = "listed"
  /\ InitSuite

Next ==
  \/ Compile
  \/ LoadSuite
  \/ BeforeAll
  \/ StartTest
  \/ AwaitPredecessor
  \/ SkipTest
  \/ ApplyBefore
  \/ ApplyThrows
  \/ RunStep
  \/ StepThrows
  \/ StartGroup
  \/ FireTimer
  \/ MemberResolves
  \/ CommandRejects
  \/ TypedRejects
  \/ JoinGroup
  \/ AssertPasses
  \/ AssertThrows
  \/ AfterAll

NextParse == Compile

NextOps ==
  \/ Compile
  \/ LoadSuite
  \/ BeforeAll
  \/ StartTest
  \/ AwaitPredecessor
  \/ ApplyBefore
  \/ ApplyThrows
  \/ RunStep
  \/ StepThrows
  \/ StartGroup
  \/ FireTimer
  \/ MemberResolves
  \/ CommandRejects
  \/ TypedRejects
  \/ JoinGroup
  \/ AssertPasses
  \/ AssertThrows
  \/ AfterAll

NextFlags ==
  \/ Compile
  \/ LoadSuite
  \/ BeforeAll
  \/ StartTest
  \/ AwaitPredecessor
  \/ SkipTest
  \/ ApplyBefore
  \/ ApplyThrows
  \/ RunStep
  \/ StepThrows
  \/ AssertPasses
  \/ AssertThrows
  \/ AfterAll

NextBuild ==
  \/ ReadFile
  \/ Compile
  \/ EndBuild

Spec == Init /\ [][Next]_vars

NextRepeat ==
  \/ RepeatInsert
  \/ ExecuteResolves
  \/ ExecuteRejects

SpecRepeat == InitRepeat /\ [][NextRepeat]_vars

SpecLines == InitLines /\ [][NextParse]_vars

SpecBuild == InitBuild /\ [][NextBuild]_vars

SpecFlags == InitFlags /\ [][NextFlags]_vars

SpecParse == InitParse /\ [][NextParse]_vars

SpecOps == InitOps /\ [][NextOps]_vars

(***************************************************************************)
(* Properties of the compiler.                                             *)
(***************************************************************************)
Matches == contents.matches

TitleAt(i) == NormalizeTitle(Matches[i].badTitle)

IsTransitionAt(i) == Matches[i].comesAfter # NoLink

Compiled == phase # "source"

Rejected == phase = "rejected"

Accepted == phase \notin { "source", "rejected" }

\* the entry at i is a Transition whose comesAfter is the title of no earlier entry
DanglingAt(i) ==
  /\ IsTransitionAt(i)
  /\ \A j \in 1 .. (i - 1) : TitleAt(j) # Matches[i].comesAfter

\* C1: a file in which some Transition's comesAfter names a title that no
\* earlier entry of the file declares (never declared, or declared only by a
\* later InitialState or Transition) is rejected.
C1_DanglingReferenceRejected ==
  (Compiled /\ \E i \in DOMAIN Matches : DanglingAt(i)) => Rejected

\* the dependency graph: an edge from each Transition's title to its comesAfter
DependencyEdges ==
  { << TitleAt(i), Matches[i].comesAfter >> : i \in { k \in DOMAIN Matches : IsTransitionAt(k) } }

\* the titles reachable from the set S along edges of E, S included
RECURSIVE Descendants(_, _)
Descendants(E, S) ==
  LET T == S \cup { e[2] : e \in { x \in E : x[1] \in S } }
  IN  IF T = S THEN S ELSE Descendants(E, T)

Cyclic(E) == \E e \in E : e[1] \in Descendants(E, { e[2] })

\* C2: the dependency graph of every accepted file is acyclic: no title
\* reaches itself, a self-reference included.
C2_AcceptedGraphAcyclic == Accepted => ~ Cyclic(DependencyEdges)

\* two entries of the file have the same title once whitespace is a hyphen
DuplicateTitle == \E i, j \in DOMAIN Matches : i < j /\ TitleAt(i) = TitleAt(j)

\* C5: a file with two entries of the same normalised title is rejected,
\* whatever the kinds of the two entries.
C5_DuplicateTitleRejected == (Compiled /\ DuplicateTitle) => Rejected

(***************************************************************************)
(* Properties of the generated suite.                                      *)
(***************************************************************************)
Tests == suite.tests

\* C3: every test's await of documents[comesAfter] completes.  The runner
\* executes no other test while one is awaiting, so the await completes
\* exactly when the promise is settled as the test reaches it.
C3_AwaitSettles ==
  (InTest /\ pc = "await") => Lookup(documents, Test.comesAfter) # Pending

\* test j depends on test i through comesAfter, directly or transitively
DependsOn(j, i) == Tests[i].title \in Descendants(DependencyEdges, { Tests[j].comesAfter })

\* C4: once a test has failed, every other test that depends on it through
\* comesAfter, directly or transitively, ends up skipped.
C4_DependentsSkipped ==
  \A i, j \in DOMAIN status :
    (i # j /\ status[i] = "failed" /\ DependsOn(j, i) /\ status[j] # "pending")
      => status[j] = "skipped"

\* the running test has passed its skip check
InBody == InTest /\ pc \in { "steps", "group" }

\* C6: a test touches the live document only with a predecessor state in
\* hand, and the test that produced that state is another test whose body is
\* over.
C6_PredecessorFinished ==
  /\ InBody => beforeDocument # Undefined
  /\ \A k \in DOMAIN status :
       (InTest /\ beforeDocument = Tests[k].code) => (k # cur /\ status[k] # "pending")

C6_Witness ==
  /\ InBody
  /\ \E k \in DOMAIN status :
       /\ beforeDocument = Tests[k].code
       /\ Tests[k].title = Test.comesAfter
       /\ status[k] = "passed"

StatesOf(title) ==
  { suite.setups[k].code : k \in { n \in DOMAIN suite.setups : suite.setups[n].title = title } }
    \cup { Tests[k].code : k \in { n \in DOMAIN status :
                                     Tests[n].title = title /\ status[n] = "passed" } }

\* C8: a test is skipped only if a test of the title it comes after failed or
\* was skipped, and a test that runs applies the state of a setup or passed
\* test of that title, whatever happened to the other tests.
C8_SkipOnlyOnChain ==
  /\ \A j \in DOMAIN status :
       status[j] = "skipped" =>
         \E k \in DOMAIN status :
           /\ Tests[k].title = Tests[j].comesAfter
           /\ status[k] \in { "failed", "skipped" }
  /\ (InTest /\ beforeDocument # Undefined) => beforeDocument \in StatesOf(Test.comesAfter)

\* a test failed, its dependent was skipped, and a later sibling of the
\* failed test (same comesAfter, other title) passed
C8_Witness ==
  /\ ~ DuplicateTitle
  /\ \E i, j, k \in DOMAIN status :
       /\ i < j /\ j < k
       /\ Tests[j].comesAfter = Tests[i].title
       /\ Tests[k].comesAfter = Tests[i].comesAfter
       /\ status[i] = "failed"
       /\ status[j] = "skipped"
       /\ status[k] = "passed"

(***************************************************************************)
(* Properties of the operation steps.                                      *)
(***************************************************************************)
\* C9: no operation whose command starts with type: is emitted as a command
\* step of its own, at whatever position it stands in the operation list.
C9_TypeNeverACommand ==
  Accepted =>
    \A t \in DOMAIN Tests :
      \A s \in DOMAIN Tests[t].steps :
        \A m \in DOMAIN Tests[t].steps[s].members :
          Tests[t].steps[s].members[m].kind = "command"
            => ~ IsTypeCommand(Tests[t].steps[s].members[m].name)

IsTransitionMatch(e) == e.comesAfter # NoLink

\* the Transition entries of the file, in file order, with the operations
\* and the flags of their bodies
Transitions ==
  LET matched == SelectSeq(Matches, IsTransitionMatch)
  IN  [ i \in DOMAIN matched |->
          [ operations |-> LineOperations(matched[i].body),
            flags      |-> LineFlags(matched[i].body) ] ]

IsTypeAt(ops, j) == j \in DOMAIN ops /\ IsTypeCommand(ops[j].command)

\* the operation at h is a command directly followed by a type: operation
IsGroupHead(ops, h) == h \in DOMAIN ops /\ ~ IsTypeAt(ops, h) /\ IsTypeAt(ops, h + 1)

\* the number of consecutive type: operations that follow the one at h
TypedAfter(ops, h) ==
  CHOOSE k \in 0 .. (Len(ops) - h) :
    /\ \A i \in 1 .. k : IsTypeAt(ops, h + i)
    /\ ~ IsTypeAt(ops, h + k + 1)

\* the position of the step of the command at h: after the flag steps, one
\* step for the first operation and for every later operation that is no type:
StepIndexOf(flags, ops, h) ==
  Len(flags) + Cardinality({ j \in 1 .. h : j = 1 \/ ~ IsTypeAt(ops, j) })

IsAction(member) == member.kind # "hole"

\* the members of a step that do something, the empty slots left out
ActionsOf(step) == SelectSeq(step.members, IsAction)

\* the step of the group headed by operation h of transition t is one joined
\* step of k + 1 members: the command, then the typed characters in order,
\* the i-th at offset i * 20
GroupStepRight(t, h) ==
  LET ops     == Transitions[t].operations
      k       == TypedAfter(ops, h)
      step    == Tests[t].steps[StepIndexOf(Transitions[t].flags, ops, h)]
      actions == ActionsOf(step)
  IN  /\ step.kind = "all"
      /\ Len(actions) = k + 1
      /\ actions[1].kind = "command"
      /\ actions[1].delay = 0
      /\ \A i \in 1 .. k :
           /\ actions[i + 1].kind = "typed"
           /\ actions[i + 1].text = ops[h + i].command[6]
           /\ actions[i + 1].delay = i * 20

\* the timers fired so far fired in member order, each later than the last
FiredInOrder ==
  \A a, b \in DOMAIN group.fired :
    a < b => /\ group.fired[a] < group.fired[b]
             /\ Members[group.fired[a]].delay < Members[group.fired[b]].delay

\* the step before the next one is a joined step
PastGroup ==
  /\ InTest
  /\ pc = "steps"
  /\ stepIdx - 1 \in DOMAIN Test.steps
  /\ Test.steps[stepIdx - 1].kind = "all"

\* every member of the joined step just left has started and resolved
GroupComplete ==
  \A j \in DOMAIN Test.steps[stepIdx - 1].members :
    IsAction(Test.steps[stepIdx - 1].members[j]) => j \in group.started \cap group.done

\* C10: a command followed by k >= 1 type: operations becomes one joined step
\* of k + 1 members, the i-th typed character at offset i * 20; the typed
\* characters start one after another in that order; and the test goes on
\* past the joined step only when all k + 1 members have completed.
C10_StaggeredGroupJoined ==
  /\ Accepted =>
       \A t \in DOMAIN Tests :
         \A h \in DOMAIN Transitions[t].operations :
           IsGroupHead(Transitions[t].operations, h) => GroupStepRight(t, h)
  /\ InGroup => FiredInOrder
  /\ PastGroup => GroupComplete

\* a command and two typed characters have completed and a further step follows
C10_Witness ==
  /\ PastGroup
  /\ stepIdx \in DOMAIN Test.steps
  /\ Len(ActionsOf(Test.steps[stepIdx - 1])) = 3
  /\ Len(group.fired) = 2
  /\ GroupComplete

(***************************************************************************)
(* Properties of the flags.                                                *)
(***************************************************************************)
\* some entry of the file, InitialState or Transition, has a flag line that
\* is not of the form scope.behavior <- caret|character
UnrecognizedFlagInFile ==
  \E i \in DOMAIN Matches :
    \E l \in DOMAIN Matches[i].body :
      /\ IsFlagLine(Matches[i].body[l])
      /\ ~ FlagRecognized(Matches[i].body[l].flag)

\* C11: a flag that is not scope.behavior <- caret|character aborts the
\* compilation of the file, whether it stands in the body of a Transition or
\* in the body of an InitialState; none is silently ignored.
C11_UnrecognizedFlagFatal ==
  (Compiled /\ UnrecognizedFlagInFile) => Rejected

\* the bodies of the Transition entries of the file, in file order
TransitionBodies ==
  LET matched == SelectSeq(Matches, IsTransitionMatch)
  IN  [ i \in DOMAIN matched |-> matched[i].body ]

\* the line of the k-th flag of a body
FlagLineAt(body, k) ==
  CHOOSE l \in DOMAIN body :
    /\ IsFlagLine(body[l])
    /\ Cardinality({ j \in 1 .. l : IsFlagLine(body[j]) }) = k

IsConfigStep(step) == step.kind = "config"

\* the steps of generated test t: as many configuration steps as the body
\* has flag lines, the k-th one made from the k-th flag line, and all of
\* them before the first operation step
FlagStepsFirst(t) ==
  LET body  == TransitionBodies[t]
      steps == Tests[t].steps
      n     == Cardinality({ l \in DOMAIN body : IsFlagLine(body[l]) })
  IN  /\ Len(SelectSeq(steps, IsConfigStep)) = n
      /\ \A k \in 1 .. n :
           /\ k \in DOMAIN steps
           /\ IsConfigStep(steps[k])
           /\ steps[k].members[1].name = body[FlagLineAt(body, k)].flag.scope
           /\ steps[k].members[1].text = body[FlagLineAt(body, k)].flag.value

\* C13: in the steps generated for a transition every configuration step
\* made from a flag precedes every operation step, wherever the flag line
\* stands among the operation lines, and the flag steps keep the order the
\* flag lines have in the source.
C13_FlagStepsFirst ==
  Accepted => \A t \in DOMAIN Tests : FlagStepsFirst(t)

\* a transition whose body has a flag, an operation and then another flag
\* has run its two configuration steps and is about to run the operation
C13_Witness ==
  /\ InTest
  /\ cur = 1
  /\ TransitionBodies[1] =
       << FlagLine(InsertFlag), OperationLine(Op(<< ".", "x" >>)), FlagLine(GoodFlag) >>
  /\ pc = "steps"
  /\ stepIdx = 3
  /\ behavior = [ normal |-> "character", insert |-> "character" ]

\* the step leaves the live document and the selection behaviour alone
EditorUntouched == editor' = editor /\ behavior' = behavior

\* C14: a generated test whose predecessor promise resolved to undefined
\* does not attempt its body: from its start to its end as skipped it applies
\* no document state, runs no flag or operation step and asserts nothing, so
\* the live document and the selection behaviour stay as they were before
\* the test started.
C14_SkipLeavesEditor ==
  [][ InTest =>
        /\ pc \in { "idle", "await" } => EditorUntouched /\ status'[cur] = "pending"
        /\ (pc = "resumed" /\ beforeDocument = Undefined)
             => EditorUntouched /\ status'[cur] = "skipped"
        /\ status'[cur] = "skipped"
             => pc = "resumed" /\ beforeDocument = Undefined /\ stepIdx = 0 ]_vars

\* the first transition set normal mode to character and failed leaving a
\* garbled document; the second, which comes after it, has been skipped
C14_Witness ==
  /\ phase = "running"
  /\ status = << "failed", "skipped" >>
  /\ editor = Garbled
  /\ behavior["normal"] = "character"

\* the step executes a configuration step of the running test
ConfigStepRuns ==
  /\ AtStep
  /\ IsConfigStep(Test.steps[stepIdx])
  /\ stepIdx' = stepIdx + 1

\* C19: the selection behaviour is written only by the suite-level setup,
\* which sets normal mode to caret, and by the flag steps of test bodies,
\* each of which sets the mode it names to the value it names; no other
\* step, the start and the end of a test included, changes it, so a test
\* runs under whatever the steps before it left behind.
C19_BehaviorWrittenByFlagsOnly ==
  [][ IF phase = "loaded"
      THEN behavior' = [ behavior EXCEPT !["normal"] = "caret" ]
      ELSE IF ConfigStepRuns
      THEN behavior' = [ behavior EXCEPT ![Test.steps[stepIdx].members[1].name] =
                                           Test.steps[stepIdx].members[1].text ]
      ELSE behavior' = behavior ]_vars

\* the second transition has no flag and comes after the initial state; it
\* runs its body under the character behaviour that the first transition,
\* which is not on its chain, has set for normal and insert mode
C19_Witness ==
  /\ InTest
  /\ cur = 2
  /\ Test.comesAfter = << "A" >>
  /\ \A k \in DOMAIN Test.steps : ~ IsConfigStep(Test.steps[k])
  /\ pc = "steps"
  /\ stepIdx = 1
  /\ status[1] = "passed"
  /\ behavior = [ normal |-> "character", insert |-> "character" ]

(***************************************************************************)
(* Properties of the header count.                                         *)
(***************************************************************************)
HeaderLines == { l \in DOMAIN contents.lines : contents.lines[l] = "header" }

\* the lines at which the entries extracted from the file start
EntryStarts == { EntryMatches(contents)[i].index : i \in DOMAIN EntryMatches(contents) }

\* C16: parseMarkdownTests fails with the structural error whenever the
\* number of lines that start with "# " differs from the number of entries
\* extracted, and it never returns a result in which a header line of the
\* input has no entry.
C16_HeaderCountChecked ==
  /\ (Compiled /\ Cardinality(HeaderLines) # Len(EntryMatches(contents)))
       => (Rejected /\ error.kind = "not all tests were parsed")
  /\ Accepted =>
       /\ HeaderLines = EntryStarts
       /\ Len(suite.setups) + Len(suite.tests) = Cardinality(HeaderLines)

\* a file with a complete InitialState whose fenced code holds a line that
\* starts with "# " has been rejected for its header count
C16_Witness ==
  /\ Rejected
  /\ error.kind = "not all tests were parsed"
  /\ contents.lines = << "header", "operation", "fence", "header", "fence" >>
  /\ Len(EntryMatches(contents)) = 1

(***************************************************************************)
(* Properties of the documents table.                                      *)
(***************************************************************************)
InitialIndices == { i \in DOMAIN Matches : ~ IsTransitionMatch(Matches[i]) }

TransitionIndices == { i \in DOMAIN Matches : IsTransitionMatch(Matches[i]) }

\* the titles whose promise is seeded already resolved
SeededResolved == { t \in DOMAIN documents : documents[t] # Pending }

\* the generated tests and the seeded table are in step with the entries
TableMatchesEntries ==
  /\ Len(Tests) = Cardinality(TransitionIndices)
  /\ Cardinality(SeededResolved) = Cardinality(InitialIndices)
  /\ \A i \in TransitionIndices : Lookup(documents, TitleAt(i)) = Pending
  /\ \A i, j \in TransitionIndices : i # j => TitleAt(i) # TitleAt(j)
  /\ \A i \in InitialIndices : Lookup(documents, TitleAt(i)) = i

\* C15: for every accepted file, as the suite is loaded there are as many
\* generated tests as Transition entries and as many entries of the documents
\* table seeded resolved as InitialState entries; every Transition title maps
\* to a pending placeholder of its own and every InitialState title to a
\* promise resolved with its state.
C15_TableMatchesEntries == phase = "loaded" => TableMatchesEntries

(***************************************************************************)
(* Properties of build.                                                    *)
(***************************************************************************)
\* C12: when the compilation of a file fails, for whatever reason (header
\* count, duplicate initial title, unknown dependency, unrecognized flag of a
\* transition), the step that fails leaves the output of that file, and
\* every other output, as it was: nothing is written or modified.
C12_NoOutputOnFailure ==
  [][ (phase = "source" /\ phase' = "rejected") => outputs' = outputs ]_vars

\* the compilation of the second file failed on an unrecognized flag, and
\* the output an earlier build left for it is still there
C12_Witness ==
  /\ phase = "rejected"
  /\ error.kind = "unrecognized flag"
  /\ scan = 2
  /\ outputs[1].state = "written"
  /\ outputs[2] = Stale

\* C20: build compiles the files one after another and stops at the first
\* one that fails: every .md file before the current one has its output
\* written, and no file after the current one has been read or written.
C20_StopsAtFirstFailure ==
  /\ \A i \in 1 .. (scan - 1) :
       IsMarkdown(dir[i]) =>
         /\ i \in reads
         /\ CompileFile(dir[i].contents).ok
         /\ outputs[i] = WrittenFile(CompileFile(dir[i].contents).suite)
  /\ \A i \in DOMAIN dir :
       i > scan => i \notin reads /\ outputs[i] \in { Absent, Stale }
  /\ \A i \in DOMAIN dir :
       ~ IsMarkdown(dir[i]) => i \notin reads /\ outputs[i] \in { Absent, Stale }
  /\ phase = "rejected" => ~ ENABLED NextBuild

\* the second of three .md files failed: the first is written, the third,
\* which would compile, is neither read nor written
C20_Witness ==
  /\ phase = "rejected"
  /\ scan = 2
  /\ Len(dir) = 3
  /\ IsMarkdown(dir[1]) /\ IsMarkdown(dir[3])
  /\ outputs[1].state = "written"
  /\ CompileFile(dir[3].contents).ok
  /\ 3 \notin reads
  /\ outputs[3] = Stale

(***************************************************************************)
(* Properties of repeatInsert.                                             *)
(***************************************************************************)
IsSwitchToInsert(i) == "SwitchToInsertBefore" \in recordedCommands[i].flags

IsSwitchToNormal(i) == "SwitchToNormal" \in recordedCommands[i].flags

\* s is the last command flagged SwitchToInsertBefore and e the first
\* command after it flagged SwitchToNormal
ReplayRange(s, e) ==
  /\ s \in DOMAIN recordedCommands /\ e \in DOMAIN recordedCommands
  /\ IsSwitchToInsert(s)
  /\ \A k \in DOMAIN recordedCommands : k > s => ~ IsSwitchToInsert(k)
  /\ s < e
  /\ IsSwitchToNormal(e)
  /\ \A k \in (s + 1) .. (e - 1) : ~ IsSwitchToNormal(k)

HasReplayRange == \E s, e \in DOMAIN recordedCommands : ReplayRange(s, e)

\* C17: repeatInsert takes as replay range the last recorded command flagged
\* SwitchToInsertBefore and the first one after it flagged SwitchToNormal,
\* and executes the command at start; when there is no such range it returns
\* having executed no command and made no edit, even when an earlier
\* complete insert session is recorded.
C17_ReplayRange ==
  /\ replay.pc \in { "executing", "done", "failed" } =>
       /\ ReplayRange(replay.start, replay.end)
       /\ executed = << replay.start >>
  /\ replay.pc = "returned" =>
       /\ ~ HasReplayRange
       /\ executed = << >>
       /\ edits = << >>
  /\ replay.pc = "idle" => executed = << >> /\ edits = << >>

\* a complete insert session is followed by a command that switches to
\* insert mode and by nothing that switches back: repeatInsert has returned
C17_Witness ==
  /\ replay.pc = "returned"
  /\ Len(recordedCommands) = 4
  /\ IsSwitchToInsert(1) /\ ~ IsSwitchToNormal(1)
  /\ IsSwitchToNormal(2) /\ ~ IsSwitchToInsert(2)
  /\ recordedCommands[3].followingChanges.defined
  /\ IsSwitchToInsert(4)

\* the changes of the commands j .. e, in recorded order
RECURSIVE RecordedChanges(_, _)
RecordedChanges(j, e) ==
  IF j > e THEN << >>
  ELSE (IF recordedCommands[j].followingChanges.defined
        THEN recordedCommands[j].followingChanges.list ELSE << >>)
       \o RecordedChanges(j + 1, e)

\* call k of an edit applies change c
Applies(call, c) ==
  /\ call.text = c.text
  /\ IF c.rangeLength = 0
     THEN call.op = "insert" /\ call.at = "selection.active"
     ELSE call.op = "replace" /\ call.at = "selection"

\* C18: with a replay range start..end, repeatInsert executes the command
\* at start exactly once and then makes one edit that applies the recorded
\* changes of the commands start..end in recorded order, the whole
\* max(1, currentCount) times over; a command without recorded changes adds
\* nothing, a change of rangeLength 0 is an insert at the active position and
\* any other change a replace of the selection.
C18_ReplayEdit ==
  /\ replay.pc = "executing" => edits = << >>
  /\ replay.pc = "done" =>
       LET changes == RecordedChanges(replay.start, replay.end)
           rounds  == IF currentCount > 1 THEN currentCount ELSE 1
       IN  /\ executed = << replay.start >>
           /\ Len(edits) = 1
           /\ Len(edits[1]) = rounds * Len(changes)
           /\ \A r \in 0 .. (rounds - 1) :
                \A k \in DOMAIN changes :
                  Applies(edits[1][r * Len(changes) + k], changes[k])

\* the range holds a command without changes and both kinds of change, and
\* the edit has applied it twice over
C18_Witness ==
  /\ replay.pc = "done"
  /\ currentCount = 2
  /\ \E j \in replay.start .. replay.end : ~ recordedCommands[j].followingChanges.defined
  /\ Len(edits[1]) = 6
  /\ edits[1][1].op = "insert"
  /\ edits[1][3].op = "replace"

====
